---------------------------- MODULE Spec2Model ----------------------------
(***************************************************************************)
(* Signature verification (console/account/src/signature/verify.rs) and    *)
(* the DPC authorize / execute pipeline (dpc/src/dpc.rs).                  *)
(*                                                                         *)
(* The curve group is modelled as the cyclic group Z_ScalarModulus, a      *)
(* group element being written as its discrete logarithm with respect to   *)
(* the generator G.  The base field is Z_FieldModulus.                     *)
(***************************************************************************)
EXTENDS Integers, Sequences, FiniteSets, TLC

\* ------------------------------------------------------------------------
\* Bounds of the model
\* ------------------------------------------------------------------------
ScalarModulus == 3
FieldModulus == 5
MAX_DATA_SIZE_IN_FIELDS == 4
MaxFieldVal == 1
MaxBits == 3
MaxBytes == 2
NumKeys == 3
MaxKeys == 3
MaxKernel == 2
MaxProgram == 2
MaxBlock == 2
MaxRandomizer == 1

BYTE_BITS == 8
NUM_INPUT_RECORDS == 2

Scalar == 0 .. (ScalarModulus - 1)
Group == 0 .. (ScalarModulus - 1)
Field == 0 .. (FieldModulus - 1)

\* ------------------------------------------------------------------------
\* Sequences helpers
\* ------------------------------------------------------------------------
SeqsUpTo(S, n) == UNION { [1 .. k -> S] : k \in 0 .. n }

Min(a, b) == IF a < b THEN a ELSE b

Take(s, n) == SubSeq(s, 1, Min(n, Len(s)))

\* ------------------------------------------------------------------------
\* Group, scalar and field primitives
\* ------------------------------------------------------------------------
\* N::g_scalar_multiply(s) = s * G
g_scalar_multiply(s) == s % ScalarModulus

\* point * scalar
PointMul(p, s) == (p * s) % ScalarModulus

\* point + point
PointAdd(p, r) == (p + r) % ScalarModulus

\* point.to_x_coordinate(): injective on the prime-order subgroup
to_x_coordinate(p) == (p + 1) % FieldModulus

RECURSIVE Absorb(_, _)
Absorb(h, s) ==
  IF s = <<>> THEN h
  ELSE Absorb((2 * h + Head(s) + 1) % FieldModulus, Tail(s))

\* the sponge: a deterministic map from field-element sequences to the field
Poseidon(preimage) == Absorb(Len(preimage) % FieldModulus, preimage)

\* N::hash_to_scalar_psd8: the digest is converted to a scalar, which fails
\* when the digest is not below the scalar modulus.
hash_to_scalar(preimage) ==
  LET d == Poseidon(preimage)
  IN  IF d < ScalarModulus THEN [ok |-> TRUE, val |-> d]
                           ELSE [ok |-> FALSE, val |-> 0]

\* ------------------------------------------------------------------------
\* Keys and addresses
\* ------------------------------------------------------------------------
PrivateKey == [sk_sig : Scalar, r_sig : Scalar]

ComputeKey == [pk_sig : Group, pr_sig : Group]

\* ComputeKey::try_from(private_key)
ComputeKeyOf(sk) ==
  [pk_sig |-> g_scalar_multiply(sk.sk_sig), pr_sig |-> g_scalar_multiply(sk.r_sig)]

\* Address::try_from(compute_key): pk_sig + pr_sig + sk_prf * G
AddressFrom(ck) ==
  LET sk_prf == hash_to_scalar(<<to_x_coordinate(ck.pk_sig), to_x_coordinate(ck.pr_sig)>>)
  IN  IF sk_prf.ok
        THEN [ok |-> TRUE,
              val |-> PointAdd(PointAdd(ck.pk_sig, ck.pr_sig), g_scalar_multiply(sk_prf.val))]
        ELSE [ok |-> FALSE, val |-> 0]

\* Address::try_from(&private_key)
address_of(sk) == AddressFrom(ComputeKeyOf(sk))

\* a private key is valid when its address can be derived
ValidKey(sk) == address_of(sk).ok

NoSignature == [challenge |-> 0, response |-> 0, compute_key |-> [pk_sig |-> 0, pr_sig |-> 0]]

SignatureT == [challenge : Scalar, response : Scalar, compute_key : ComputeKey]

\* ------------------------------------------------------------------------
\* Signature::sign
\* ------------------------------------------------------------------------
sign(sk, message, nonce) ==
  IF Len(message) > MAX_DATA_SIZE_IN_FIELDS THEN [ok |-> FALSE, val |-> NoSignature]
  ELSE
    LET ck      == ComputeKeyOf(sk)
        address == AddressFrom(ck)
        g_r     == g_scalar_multiply(nonce)
        preimage == <<to_x_coordinate(g_r), to_x_coordinate(ck.pk_sig),
                      to_x_coordinate(ck.pr_sig), to_x_coordinate(address.val)>> \o message
        challenge == hash_to_scalar(preimage)
    IN  IF ~address.ok \/ ~challenge.ok THEN [ok |-> FALSE, val |-> NoSignature]
        ELSE [ok |-> TRUE,
              val |-> [challenge |-> challenge.val,
                       response |-> (nonce + ScalarModulus * ScalarModulus
                                       - challenge.val * sk.sk_sig) % ScalarModulus,
                       compute_key |-> ck]]

\* ------------------------------------------------------------------------
\* Signature::verify
\* ------------------------------------------------------------------------
\* VerifyPreimage with g_r computed as (response * G) alone
VerifyPreimage_no_challenge_term(s, address, message) ==
  LET pk_sig == s.compute_key.pk_sig
      pr_sig == s.compute_key.pr_sig
      g_r    == g_scalar_multiply(s.response)
  IN  <<to_x_coordinate(g_r), to_x_coordinate(pk_sig),
        to_x_coordinate(pr_sig), to_x_coordinate(address)>> \o message

\* the hash input (g_r, pk_sig, pr_sig, address, message) of verify
VerifyPreimage(s, address, message) ==
  LET pk_sig == s.compute_key.pk_sig
      pr_sig == s.compute_key.pr_sig
      g_r    == PointAdd(g_scalar_multiply(s.response), PointMul(pk_sig, s.challenge))
  IN  <<to_x_coordinate(g_r), to_x_coordinate(pk_sig),
        to_x_coordinate(pr_sig), to_x_coordinate(address)>> \o message

\* verify without the comparison of the address
verify_no_address_check(s, address, message) ==
  IF Len(message) > MAX_DATA_SIZE_IN_FIELDS
    THEN [result |-> "false", calls |-> <<>>]
  ELSE
    LET candidate_challenge == hash_to_scalar(VerifyPreimage(s, address, message))
        candidate_address   == AddressFrom(s.compute_key)
    IN  IF ~candidate_challenge.ok
          THEN [result |-> "false", calls |-> <<"hash_to_scalar">>]
        ELSE IF ~candidate_address.ok
          THEN [result |-> "false", calls |-> <<"hash_to_scalar", "address">>]
        ELSE [result |-> IF s.challenge = candidate_challenge.val THEN "true" ELSE "false",
              calls |-> <<"hash_to_scalar", "address">>]

\* verify without the check of the message size
verify_no_size_check(s, address, message) ==
  LET candidate_challenge == hash_to_scalar(VerifyPreimage(s, address, message))
      candidate_address   == AddressFrom(s.compute_key)
  IN  IF ~candidate_challenge.ok
        THEN [result |-> "false", calls |-> <<"hash_to_scalar">>]
      ELSE IF ~candidate_address.ok
        THEN [result |-> "false", calls |-> <<"hash_to_scalar", "address">>]
      ELSE [result |-> IF s.challenge = candidate_challenge.val /\ address = candidate_address.val
                         THEN "true" ELSE "false",
            calls |-> <<"hash_to_scalar", "address">>]

\* verify with the error of the hash propagated to the caller
verify_propagating(s, address, message) ==
  IF Len(message) > MAX_DATA_SIZE_IN_FIELDS
    THEN [result |-> "false", calls |-> <<>>]
  ELSE
    LET candidate_challenge == hash_to_scalar(VerifyPreimage(s, address, message))
        candidate_address   == AddressFrom(s.compute_key)
    IN  IF ~candidate_challenge.ok
          THEN [result |-> "Err", calls |-> <<"hash_to_scalar">>]
        ELSE IF ~candidate_address.ok
          THEN [result |-> "Err", calls |-> <<"hash_to_scalar", "address">>]
        ELSE [result |-> IF s.challenge = candidate_challenge.val /\ address = candidate_address.val
                           THEN "true" ELSE "false",
              calls |-> <<"hash_to_scalar", "address">>]

\* The outcome of verify and the backend calls it made, in order.
verify(s, address, message) ==
  IF Len(message) > MAX_DATA_SIZE_IN_FIELDS
    THEN [result |-> "false", calls |-> <<>>]
  ELSE
    LET candidate_challenge == hash_to_scalar(VerifyPreimage(s, address, message))
        candidate_address   == AddressFrom(s.compute_key)
    IN  IF ~candidate_challenge.ok
          THEN [result |-> "false", calls |-> <<"hash_to_scalar">>]
        ELSE IF ~candidate_address.ok
          THEN [result |-> "false", calls |-> <<"hash_to_scalar", "address">>]
        ELSE [result |-> IF s.challenge = candidate_challenge.val /\ address = candidate_address.val
                           THEN "true" ELSE "false",
              calls |-> <<"hash_to_scalar", "address">>]

\* ------------------------------------------------------------------------
\* Bit and byte packing
\* ------------------------------------------------------------------------
RECURSIVE Log2Floor(_)
Log2Floor(n) == IF n < 2 THEN 0 ELSE 1 + Log2Floor(n \div 2)

\* Field::size_in_data_bits(): the capacity of a field element
size_in_data_bits == IF 2 ^ Log2Floor(FieldModulus) = FieldModulus
                       THEN Log2Floor(FieldModulus) - 1
                       ELSE Log2Floor(FieldModulus)

RECURSIVE BitsValue(_)
BitsValue(bits) ==
  IF bits = <<>> THEN 0 ELSE (IF Head(bits) THEN 1 ELSE 0) + 2 * BitsValue(Tail(bits))

\* Field::from_bits_le
from_bits_le(bits) ==
  IF BitsValue(bits) < FieldModulus THEN [ok |-> TRUE, val |-> BitsValue(bits)]
                                    ELSE [ok |-> FALSE, val |-> 0]

\* slice.chunks(n)
RECURSIVE chunks(_, _)
chunks(s, n) ==
  IF s = <<>> THEN <<>>
  ELSE <<Take(s, n)>> \o chunks(SubSeq(s, Min(n, Len(s)) + 1, Len(s)), n)

\* u8 little-endian bits
RECURSIVE ByteBits(_, _)
ByteBits(b, n) == IF n = 0 THEN <<>> ELSE <<(b % 2) = 1>> \o ByteBits(b \div 2, n - 1)

\* [u8]::to_bits_le
RECURSIVE to_bits_le(_)
to_bits_le(bytes) ==
  IF bytes = <<>> THEN <<>> ELSE ByteBits(Head(bytes), BYTE_BITS) \o to_bits_le(Tail(bytes))

verify_bits(s, address, bits) ==
  LET packed == [i \in 1 .. Len(chunks(bits, size_in_data_bits)) |->
                   from_bits_le(chunks(bits, size_in_data_bits)[i])]
  IN  IF \A i \in 1 .. Len(packed) : packed[i].ok
        THEN verify(s, address, [i \in 1 .. Len(packed) |-> packed[i].val])
        ELSE [result |-> "false", calls |-> <<>>]

verify_bytes(s, address, bytes) == verify_bits(s, address, to_bits_le(bytes))

\* ------------------------------------------------------------------------
\* DPC::authorize
\* ------------------------------------------------------------------------
KeyAt(i) == [sk_sig |-> i % ScalarModulus, r_sig |-> (i \div ScalarModulus) % ScalarModulus]

ValidKeys == { sk \in PrivateKey : ValidKey(sk) }

\* the first n valid private keys from index i on
RECURSIVE FirstValid(_, _)
FirstValid(i, n) ==
  IF n = 0 \/ i >= ScalarModulus * ScalarModulus THEN {}
  ELSE IF ValidKey(KeyAt(i)) THEN {KeyAt(i)} \cup FirstValid(i + 1, n - 1)
  ELSE FirstValid(i + 1, n)

\* the private keys callers hold
KeyPool == FirstValid(1, NumKeys)

\* the network's noop private key
NoopKey == CHOOSE sk \in ValidKeys : sk \notin KeyPool

NoKey == [sk_sig |-> 0, r_sig |-> 0]

\* kernel.to_signature_message()
to_signature_message(kernel) ==
  IF kernel.valid THEN [ok |-> TRUE, val |-> kernel.message] ELSE [ok |-> FALSE, val |-> <<>>]

\* a transition built from its kernel and its input slots: a noop slot holds
\* the noop private key and a record owned by the noop address
StateTransition(kernel, slots) ==
  [kernel |-> kernel,
   noop_private_keys |-> [i \in 1 .. Len(slots) |->
      IF slots[i].noop THEN [some |-> TRUE, key |-> NoopKey] ELSE [some |-> FALSE, key |-> NoKey]],
   input_records |-> [i \in 1 .. Len(slots) |->
      [owner |-> IF slots[i].noop THEN address_of(NoopKey).val ELSE address_of(slots[i].key).val]]]

\* TransactionAuthorization::from(transition, signatures)
TransactionAuthorization(t, signatures) ==
  [kernel |-> t.kernel, input_records |-> t.input_records, signatures |-> signatures]

NoAuthorization ==
  [kernel |-> [valid |-> FALSE, message |-> <<>>], input_records |-> <<>>, signatures |-> <<>>]

\* the signing loop with the noop slots left unsigned
RECURSIVE sign_slots_skip_noop(_, _, _, _, _, _)
sign_slots_skip_noop(noop_keys, private_keys, msg, nonces, index, signatures) ==
  IF noop_keys = <<>> THEN [outcome |-> "Ok", signatures |-> signatures]
  ELSE IF Head(noop_keys).some
    THEN sign_slots_skip_noop(Tail(noop_keys), private_keys, msg, Tail(nonces), index, signatures)
  ELSE IF index >= Len(private_keys)
    THEN [outcome |-> "panic", signatures |-> <<>>]
  ELSE
    LET sg == sign(private_keys[index + 1], msg, Head(nonces))
    IN  IF ~sg.ok THEN [outcome |-> "Err", signatures |-> <<>>]
        ELSE sign_slots_skip_noop(Tail(noop_keys), private_keys, msg, Tail(nonces),
                                  index + 1, Append(signatures, sg.val))

\* the signing loop with a cursor that never advances
RECURSIVE sign_slots_stuck_cursor(_, _, _, _, _, _)
sign_slots_stuck_cursor(noop_keys, private_keys, msg, nonces, index, signatures) ==
  IF noop_keys = <<>> THEN [outcome |-> "Ok", signatures |-> signatures]
  ELSE IF ~Head(noop_keys).some /\ index >= Len(private_keys)
    THEN [outcome |-> "panic", signatures |-> <<>>]
  ELSE
    LET private_key == IF Head(noop_keys).some THEN Head(noop_keys).key
                                               ELSE private_keys[index + 1]
        sg == sign(private_key, msg, Head(nonces))
    IN  IF ~sg.ok THEN [outcome |-> "Err", signatures |-> <<>>]
        ELSE sign_slots_stuck_cursor(Tail(noop_keys), private_keys, msg, Tail(nonces),
                                     index, Append(signatures, sg.val))

\* the loop of authorize: index is the cursor for the private keys, and
\* private_keys[index] is out of bounds when index >= private_keys.len()
RECURSIVE sign_slots(_, _, _, _, _, _)
sign_slots(noop_keys, private_keys, msg, nonces, index, signatures) ==
  IF noop_keys = <<>> THEN [outcome |-> "Ok", signatures |-> signatures]
  ELSE IF ~Head(noop_keys).some /\ index >= Len(private_keys)
    THEN [outcome |-> "panic", signatures |-> <<>>]
  ELSE
    LET private_key == IF Head(noop_keys).some THEN Head(noop_keys).key
                                               ELSE private_keys[index + 1]
        sg == sign(private_key, msg, Head(nonces))
    IN  IF ~sg.ok THEN [outcome |-> "Err", signatures |-> <<>>]
        ELSE sign_slots(Tail(noop_keys), private_keys, msg, Tail(nonces),
                        IF Head(noop_keys).some THEN index ELSE index + 1,
                        Append(signatures, sg.val))

authorize(private_keys, t, nonces) ==
  LET signature_message == to_signature_message(t.kernel)
  IN  IF ~signature_message.ok THEN [outcome |-> "Err", authorization |-> NoAuthorization]
      ELSE
        LET r == sign_slots(Take(t.noop_private_keys, NUM_INPUT_RECORDS), private_keys,
                            signature_message.val, nonces, 0, <<>>)
        IN  IF r.outcome = "Ok"
              THEN [outcome |-> "Ok", authorization |-> TransactionAuthorization(t, r.signatures)]
              ELSE [outcome |-> r.outcome, authorization |-> NoAuthorization]

\* ------------------------------------------------------------------------
\* State
\* ------------------------------------------------------------------------
VARIABLES
  spc,        \* signature scenario: "idle", "ready", "done"
  signature,  \* the signature under verification
  address,    \* the address verification is run against
  message,    \* [kind, data]: field elements, bits or bytes
  origin,     \* "none", "signed", "sign_failed", "sampled"
  verdict,    \* what verify returned: "none", "true", "false"
  calls,      \* the backend calls the verification made
  apc,           \* authorize scenario: "idle", "ready", "done"
  private_keys,  \* the private keys handed to authorize
  transition,    \* the state transition handed to authorize
  authOutcome,   \* "none", "Ok", "Err", "panic"
  authorization, \* the authorization returned
  epc,        \* execute: the stage to run next, or "idle" / "done"
  exec_in,    \* execute: [authorization, executable, ledger_proof]
  locals,     \* execute: the values bound so far
  stages,     \* execute: the stages run so far, with their outcomes
  execResult  \* execute: [status, transaction]

sigVars == <<spc, signature, address, message, origin, verdict, calls>>

authVars == <<apc, private_keys, transition, authOutcome, authorization>>

execVars == <<epc, exec_in, locals, stages, execResult>>

vars == <<sigVars, authVars, execVars>>

FieldMessages == SeqsUpTo(0 .. MaxFieldVal, MAX_DATA_SIZE_IN_FIELDS + 1)

BitMessages == SeqsUpTo(BOOLEAN, MaxBits)

ByteValues == {0, 2, 255}

ByteMessages == SeqsUpTo(ByteValues, MaxBytes)

SigIdle ==
  /\ spc = "idle"
  /\ signature = NoSignature
  /\ address = 0
  /\ message = [kind |-> "fields", data |-> <<>>]
  /\ origin = "none"
  /\ verdict = "none"
  /\ calls = <<>>

AuthIdle ==
  /\ apc = "idle"
  /\ private_keys = <<>>
  /\ transition = StateTransition([valid |-> FALSE, message |-> <<>>], <<>>)
  /\ authOutcome = "none"
  /\ authorization = NoAuthorization

NoProof == [public |-> 0, sound |-> FALSE]

NoTransaction == [kernel |-> 0, metadata |-> 0, encrypted_records |-> 0, proof |-> 0]

NoLocals ==
  [transaction_id |-> 0, execution |-> 0, encrypted |-> 0, inner_public_variables |-> 0,
   inner_private_variables |-> 0, inner_proof |-> NoProof, self_check |-> "none",
   verified_proof |-> NoProof, outer_private_variables |-> 0, transaction_proof |-> 0]

ExecIdle ==
  /\ epc = "idle"
  /\ exec_in = [authorization |-> 0, executable |-> 0, ledger_proof |-> 0]
  /\ locals = NoLocals
  /\ stages = <<>>
  /\ execResult = [status |-> "none", transaction |-> NoTransaction]

SigInit == SigIdle /\ AuthIdle /\ ExecIdle

\* test_sign_and_verify: sample a key, derive its address, sign a message
Sign ==
  /\ spc = "idle"
  /\ \E sk \in PrivateKey, m \in FieldMessages, nonce \in Scalar :
       /\ ValidKey(sk)
       /\ LET sg == sign(sk, m, nonce)
          IN  /\ signature' = sg.val
              /\ address' = address_of(sk).val
              /\ message' = [kind |-> "fields", data |-> m]
              /\ origin' = IF sg.ok THEN "signed" ELSE "sign_failed"
              /\ spc' = IF sg.ok THEN "ready" ELSE "done"
  /\ UNCHANGED <<verdict, calls>>
  /\ UNCHANGED <<authVars, execVars>>

\* an arbitrary (signature, address, message) handed to the verifier
Sample ==
  /\ spc = "idle"
  /\ \E s \in SignatureT, a \in Group :
       /\ signature' = s
       /\ address' = a
  /\ \E m \in [kind : {"fields"}, data : FieldMessages]
            \cup [kind : {"bits"}, data : BitMessages]
            \cup [kind : {"bytes"}, data : ByteMessages] :
       message' = m
  /\ origin' = "sampled"
  /\ spc' = "ready"
  /\ UNCHANGED <<verdict, calls>>
  /\ UNCHANGED <<authVars, execVars>>

Verify ==
  /\ spc = "ready"
  /\ message.kind = "fields"
  /\ LET r == verify(signature, address, message.data)
     IN  verdict' = r.result /\ calls' = r.calls
  /\ spc' = "done"
  /\ UNCHANGED <<signature, address, message, origin>>
  /\ UNCHANGED <<authVars, execVars>>

VerifyBits ==
  /\ spc = "ready"
  /\ message.kind = "bits"
  /\ LET r == verify_bits(signature, address, message.data)
     IN  verdict' = r.result /\ calls' = r.calls
  /\ spc' = "done"
  /\ UNCHANGED <<signature, address, message, origin>>
  /\ UNCHANGED <<authVars, execVars>>

VerifyBytes ==
  /\ spc = "ready"
  /\ message.kind = "bytes"
  /\ LET r == verify_bytes(signature, address, message.data)
     IN  verdict' = r.result /\ calls' = r.calls
  /\ spc' = "done"
  /\ UNCHANGED <<signature, address, message, origin>>
  /\ UNCHANGED <<authVars, execVars>>

SigNext == Sign \/ Sample \/ Verify \/ VerifyBits \/ VerifyBytes

SpecSig == SigInit /\ [][SigNext]_vars

\* ------------------------------------------------------------------------
\* The authorize scenario
\* ------------------------------------------------------------------------
Kernels ==
  [valid : {TRUE}, message : { [i \in 1 .. k |-> i % 2] : k \in 0 .. MAX_DATA_SIZE_IN_FIELDS + 1 }]
    \cup { [valid |-> FALSE, message |-> <<>>] }

Slots == [noop : {TRUE}, key : {NoopKey}] \cup [noop : {FALSE}, key : KeyPool]

Transitions ==
  { StateTransition(k, sl) : k \in Kernels, sl \in [1 .. NUM_INPUT_RECORDS -> Slots] }

AuthInit ==
  /\ SigIdle
  /\ ExecIdle
  /\ apc = "ready"
  /\ private_keys \in SeqsUpTo(KeyPool, MaxKeys)
  /\ transition \in Transitions
  /\ authOutcome = "none"
  /\ authorization = NoAuthorization

Authorize ==
  /\ apc = "ready"
  /\ \E nonces \in [1 .. NUM_INPUT_RECORDS -> Scalar] :
       LET r == authorize(private_keys, transition, nonces)
       IN  /\ authOutcome' = r.outcome
           /\ authorization' = r.authorization
  /\ apc' = "done"
  /\ UNCHANGED <<private_keys, transition>>
  /\ UNCHANGED <<sigVars, execVars>>

AuthNext == Authorize

SpecAuth == AuthInit /\ [][AuthNext]_vars

\* ------------------------------------------------------------------------
\* DPC::execute
\* ------------------------------------------------------------------------
\* the stages of execute, in the order of the code
StageOrder ==
  <<"transaction_id", "program", "encrypt", "inner_public", "inner_private",
    "inner_prove", "inner_verify", "outer_prove", "assemble">>

ExecInputs ==
  [authorization : [kernel : 1 .. MaxKernel],
   executable    : [program_id : 1 .. MaxProgram],
   ledger_proof  : [block_hash : 1 .. MaxBlock]]

ExecInit ==
  /\ SigIdle
  /\ AuthIdle
  /\ epc = "transaction_id"
  /\ exec_in \in ExecInputs
  /\ locals = NoLocals
  /\ stages = <<>>
  /\ execResult = [status |-> "running", transaction |-> NoTransaction]

\* `?` on an Err: execute returns the error and nothing else runs
Fail(stage) ==
  /\ stages' = Append(stages, [stage |-> stage, outcome |-> "err"])
  /\ execResult' = [status |-> "Err", transaction |-> NoTransaction]
  /\ epc' = "done"
  /\ UNCHANGED <<exec_in, locals>>

\* the stage succeeded: bind its value and go on with the next statement
Pass(stage, next, bound) ==
  /\ stages' = Append(stages, [stage |-> stage, outcome |-> "ok"])
  /\ locals' = bound
  /\ epc' = next
  /\ UNCHANGED <<exec_in, execResult>>

\* authorization.to_transaction_id()?
TransactionId ==
  /\ epc = "transaction_id"
  /\ \/ Pass("transaction_id", "program",
             [locals EXCEPT !.transaction_id = [kernel |-> exec_in.authorization.kernel]])
     \/ Fail("transaction_id")
  /\ UNCHANGED <<sigVars, authVars>>

\* executable.execute(PublicVariables::new(transaction_id))?
ProgramExecute ==
  /\ epc = "program"
  /\ \/ Pass("program", "encrypt",
             [locals EXCEPT !.execution = [program_id |-> exec_in.executable.program_id,
                                           public |-> locals.transaction_id]])
     \/ Fail("program")
  /\ UNCHANGED <<sigVars, authVars>>

\* EncryptRecords with the error of the encryption dropped
EncryptRecords_ignoring_error ==
  /\ epc = "encrypt"
  /\ \/ \E r \in 0 .. MaxRandomizer :
          Pass("encrypt", "inner_public",
               [locals EXCEPT !.encrypted =
                  [records |-> [kernel |-> exec_in.authorization.kernel, randomizer |-> r],
                   ids |-> [kernel |-> exec_in.authorization.kernel, randomizer |-> r],
                   randomizers |-> r]])
     \/ /\ stages' = Append(stages, [stage |-> "encrypt", outcome |-> "err"])
        /\ epc' = "inner_public"
        /\ UNCHANGED <<exec_in, locals, execResult>>
  /\ UNCHANGED <<sigVars, authVars>>

\* authorization.to_encrypted_records(rng)?
EncryptRecords ==
  /\ epc = "encrypt"
  /\ \/ \E r \in 0 .. MaxRandomizer :
          Pass("encrypt", "inner_public",
               [locals EXCEPT !.encrypted =
                  [records |-> [kernel |-> exec_in.authorization.kernel, randomizer |-> r],
                   ids |-> [kernel |-> exec_in.authorization.kernel, randomizer |-> r],
                   randomizers |-> r]])
     \/ Fail("encrypt")
  /\ UNCHANGED <<sigVars, authVars>>

\* InnerPublicVariables::new(transaction_id, block_hash, ids, program_id)?
InnerPublic ==
  /\ epc = "inner_public"
  /\ \/ Pass("inner_public", "inner_private",
             [locals EXCEPT !.inner_public_variables =
                [transaction_id |-> locals.transaction_id,
                 block_hash |-> exec_in.ledger_proof.block_hash,
                 encrypted_record_ids |-> locals.encrypted.ids,
                 program_id |-> exec_in.executable.program_id]])
     \/ Fail("inner_public")
  /\ UNCHANGED <<sigVars, authVars>>

\* InnerPrivateVariables::new(kernel, ..., randomizers, executable)?
InnerPrivate ==
  /\ epc = "inner_private"
  /\ \/ Pass("inner_private", "inner_prove",
             [locals EXCEPT !.inner_private_variables =
                [kernel |-> exec_in.authorization.kernel,
                 ledger_proof |-> exec_in.ledger_proof,
                 encrypted_record_randomizers |-> locals.encrypted.randomizers]])
     \/ Fail("inner_private")
  /\ UNCHANGED <<sigVars, authVars>>

\* N::InnerSNARK::prove(...)?: the backend returns a proof, sound or not
InnerProve ==
  /\ epc = "inner_prove"
  /\ \/ \E sound \in BOOLEAN :
          Pass("inner_prove", "inner_verify",
               [locals EXCEPT !.inner_proof =
                  [public |-> locals.inner_public_variables, sound |-> sound]])
     \/ Fail("inner_prove")
  /\ UNCHANGED <<sigVars, authVars>>

\* InnerVerify without the assertion on the result of the verification
InnerVerify_unasserted ==
  /\ epc = "inner_verify"
  /\ \/ Pass("inner_verify", "outer_prove",
             [locals EXCEPT !.self_check = IF locals.inner_proof.sound THEN "true" ELSE "false",
                            !.verified_proof = locals.inner_proof])
     \/ /\ stages' = Append(stages, [stage |-> "inner_verify", outcome |-> "err"])
        /\ locals' = [locals EXCEPT !.self_check = "err"]
        /\ execResult' = [status |-> "Err", transaction |-> NoTransaction]
        /\ epc' = "done"
        /\ UNCHANGED exec_in
  /\ UNCHANGED <<sigVars, authVars>>

\* assert!(N::InnerSNARK::verify(vk, &inner_public_variables, &inner_proof)?)
InnerVerify ==
  /\ epc = "inner_verify"
  /\ \/ /\ locals.inner_proof.sound
        /\ locals.inner_proof.public = locals.inner_public_variables
        /\ Pass("inner_verify", "outer_prove",
                [locals EXCEPT !.self_check = "true", !.verified_proof = locals.inner_proof])
     \/ /\ ~locals.inner_proof.sound
        /\ stages' = Append(stages, [stage |-> "inner_verify", outcome |-> "false"])
        /\ locals' = [locals EXCEPT !.self_check = "false"]
        /\ execResult' = [status |-> "panic", transaction |-> NoTransaction]
        /\ epc' = "done"
        /\ UNCHANGED exec_in
     \/ /\ stages' = Append(stages, [stage |-> "inner_verify", outcome |-> "err"])
        /\ locals' = [locals EXCEPT !.self_check = "err"]
        /\ execResult' = [status |-> "Err", transaction |-> NoTransaction]
        /\ epc' = "done"
        /\ UNCHANGED exec_in
  /\ UNCHANGED <<sigVars, authVars>>

\* the outer variables are built from the inner proof, then
\* N::OuterSNARK::prove(...)?
OuterProve ==
  /\ epc = "outer_prove"
  /\ LET outer_public_variables == [inner |-> locals.inner_public_variables]
         outer_private_variables == [inner_proof |-> locals.inner_proof,
                                     execution |-> locals.execution]
     IN  \/ Pass("outer_prove", "assemble",
                 [locals EXCEPT !.outer_private_variables = outer_private_variables,
                                !.transaction_proof =
                                   [public |-> outer_public_variables,
                                    private |-> outer_private_variables]])
         \/ /\ stages' = Append(stages, [stage |-> "outer_prove", outcome |-> "err"])
            /\ locals' = [locals EXCEPT !.outer_private_variables = outer_private_variables]
            /\ execResult' = [status |-> "Err", transaction |-> NoTransaction]
            /\ epc' = "done"
            /\ UNCHANGED exec_in
  /\ UNCHANGED <<sigVars, authVars>>

\* Transaction::from(kernel, metadata, encrypted_records, transaction_proof)
Assemble ==
  /\ epc = "assemble"
  /\ \/ /\ stages' = Append(stages, [stage |-> "assemble", outcome |-> "ok"])
        /\ execResult' =
             [status |-> "Ok",
              transaction |-> [kernel |-> exec_in.authorization.kernel,
                               metadata |-> [block_hash |-> exec_in.ledger_proof.block_hash],
                               encrypted_records |-> locals.encrypted.records,
                               proof |-> locals.transaction_proof]]
        /\ epc' = "done"
        /\ UNCHANGED <<exec_in, locals>>
     \/ Fail("assemble")
  /\ UNCHANGED <<sigVars, authVars>>

ExecNext ==
  \/ TransactionId \/ ProgramExecute \/ EncryptRecords \/ InnerPublic \/ InnerPrivate
  \/ InnerProve \/ InnerVerify \/ OuterProve \/ Assemble

SpecExec == ExecInit /\ [][ExecNext]_vars

\* ------------------------------------------------------------------------
\* Properties of Signature::verify
\* ------------------------------------------------------------------------
\* the field elements the verification of the current message runs over
PackedLen ==
  CASE message.kind = "fields" -> Len(message.data)
    [] message.kind = "bits"   -> Len(chunks(message.data, size_in_data_bits))
    [] message.kind = "bytes"  -> Len(chunks(to_bits_le(message.data), size_in_data_bits))

Verified == spc = "done" /\ origin # "sign_failed"

\* the challenge the verifier recomputes for the current state
ExpectedChallenge ==
  hash_to_scalar(
    <<to_x_coordinate((signature.response + signature.challenge * signature.compute_key.pk_sig)
                        % ScalarModulus),
      to_x_coordinate(signature.compute_key.pk_sig),
      to_x_coordinate(signature.compute_key.pr_sig),
      to_x_coordinate(address)>> \o message.data)

\* C1: a signature produced by sign(sk, message, nonce) for a valid key and
\* a message within the size bound verifies against address_of(sk) and the
\* same message.
C1_RoundTrip == (spc = "done" /\ origin = "signed") => verdict = "true"

C1_Witness ==
  /\ spc = "done" /\ origin = "signed" /\ verdict = "true"
  /\ Len(message.data) = MAX_DATA_SIZE_IN_FIELDS
  /\ signature.challenge # 0

\* C2: for a message within the size bound verify returns true exactly when
\* the challenge equals the recomputed hash and the address equals the one
\* derived from the embedded compute key; a signature whose compute key
\* derives another address is rejected whatever its challenge.
C2_VerifyIff ==
  (Verified /\ message.kind = "fields" /\ Len(message.data) <= MAX_DATA_SIZE_IN_FIELDS) =>
    /\ (verdict = "true") <=>
         /\ ExpectedChallenge.ok
         /\ signature.challenge = ExpectedChallenge.val
         /\ AddressFrom(signature.compute_key).ok
         /\ address = AddressFrom(signature.compute_key).val
    /\ (AddressFrom(signature.compute_key).ok
          /\ address # AddressFrom(signature.compute_key).val) => verdict = "false"

\* the challenge matches the hash, yet the address is not the derived one
C2_Witness ==
  /\ Verified /\ message.kind = "fields" /\ origin = "sampled"
  /\ Len(message.data) <= MAX_DATA_SIZE_IN_FIELDS
  /\ ExpectedChallenge.ok /\ signature.challenge = ExpectedChallenge.val
  /\ AddressFrom(signature.compute_key).ok
  /\ address # AddressFrom(signature.compute_key).val
  /\ verdict = "false"

\* C6: a message of more than MAX_DATA_SIZE_IN_FIELDS field elements is
\* rejected for every signature and address, before any hash or address
\* derivation is attempted.
C6_SizeBound ==
  (Verified /\ PackedLen > MAX_DATA_SIZE_IN_FIELDS) => (verdict = "false" /\ calls = <<>>)

\* an oversized message whose signature satisfies both equations of verify
C6_Witness ==
  /\ Verified /\ message.kind = "fields"
  /\ Len(message.data) > MAX_DATA_SIZE_IN_FIELDS
  /\ ExpectedChallenge.ok /\ signature.challenge = ExpectedChallenge.val
  /\ AddressFrom(signature.compute_key).ok
  /\ address = AddressFrom(signature.compute_key).val
  /\ verdict = "false"

\* C7: verify, verify_bytes and verify_bits always end with a boolean; an
\* error of the hash, of the address derivation or of the packing yields
\* false.
C7_NeverFailsHard == Verified => verdict \in {"true", "false"}

\* the hash of a message within the size bound failed, for each entry point
C7_Witness ==
  /\ Verified /\ PackedLen <= MAX_DATA_SIZE_IN_FIELDS
  /\ calls = <<"hash_to_scalar">>
  /\ verdict = "false"

\* ------------------------------------------------------------------------
\* Properties of DPC::authorize
\* ------------------------------------------------------------------------
\* the non-noop input slots of the transition, in slot order
RECURSIVE NonNoopSlots(_)
NonNoopSlots(i) ==
  IF i > Min(NUM_INPUT_RECORDS, Len(transition.noop_private_keys)) THEN <<>>
  ELSE (IF transition.noop_private_keys[i].some THEN <<>> ELSE <<i>>) \o NonNoopSlots(i + 1)

NonNoopCount == Len(NonNoopSlots(1))

\* exactly one key per non-noop slot, the j-th key owning the j-th of them
KeysMatchSlots ==
  /\ Len(private_keys) = NonNoopCount
  /\ \A j \in 1 .. NonNoopCount :
       address_of(private_keys[j]).val = transition.input_records[NonNoopSlots(1)[j]].owner

\* the kernel's message can be signed by no key at all
Unsignable ==
  \/ ~transition.kernel.valid
  \/ Len(transition.kernel.message) > MAX_DATA_SIZE_IN_FIELDS
  \/ \E sk \in KeyPool \cup {NoopKey}, nonce \in Scalar :
       ~sign(sk, transition.kernel.message, nonce).ok

\* C3: authorize with fewer private keys than non-noop slots returns Err.
C3_ExhaustionIsErr ==
  (apc = "done" /\ Len(private_keys) < NonNoopCount) => authOutcome = "Err"

\* C4: with exactly one owner key per non-noop slot, in slot order, every
\* signature of the authorization verifies against the address of its slot's
\* input record over the kernel's signature message; authorize does not panic
\* and refuses only a message that cannot be signed.
C4_Completeness ==
  (apc = "done" /\ KeysMatchSlots) =>
    /\ authOutcome \in {"Ok", "Err"}
    /\ authOutcome = "Err" => Unsignable
    /\ authOutcome = "Ok" =>
         \A i \in 1 .. NUM_INPUT_RECORDS :
           /\ i <= Len(authorization.signatures)
           /\ verify(authorization.signatures[i], transition.input_records[i].owner,
                     transition.kernel.message).result = "true"

\* a noop slot followed by a real one, signed over a non-empty message
C4_Witness ==
  /\ apc = "done" /\ KeysMatchSlots /\ authOutcome = "Ok"
  /\ NonNoopSlots(1) = <<NUM_INPUT_RECORDS>>
  /\ transition.kernel.message # <<>>
  /\ transition.input_records[1].owner # transition.input_records[NUM_INPUT_RECORDS].owner

\* C5: a returned authorization holds NUM_INPUT_RECORDS signatures, one per
\* input slot and in slot order, whatever the number of private keys.
C5_SignatureCount ==
  (apc = "done" /\ authOutcome = "Ok") =>
    /\ Len(authorization.signatures) = NUM_INPUT_RECORDS
    /\ Len(authorization.input_records) = NUM_INPUT_RECORDS
    /\ \A i \in 1 .. NUM_INPUT_RECORDS :
         transition.noop_private_keys[i].some =>
           /\ i <= Len(authorization.signatures)
           /\ authorization.signatures[i].compute_key = ComputeKeyOf(NoopKey)
    /\ \A j \in 1 .. NonNoopCount :
         /\ NonNoopSlots(1)[j] <= Len(authorization.signatures)
         /\ authorization.signatures[NonNoopSlots(1)[j]].compute_key
              = ComputeKeyOf(private_keys[j])

\* more private keys than non-noop slots, and a noop slot among the inputs
C5_Witness ==
  /\ apc = "done" /\ authOutcome = "Ok"
  /\ Len(private_keys) > NonNoopCount
  /\ NonNoopCount = 1
  /\ Len(authorization.signatures) = NUM_INPUT_RECORDS

\* ------------------------------------------------------------------------
\* Properties of DPC::execute
\* ------------------------------------------------------------------------
StageNames(sq) == [i \in 1 .. Len(sq) |-> sq[i].stage]

\* C8: a failed stage is the last stage run and yields no transaction; a
\* transaction is returned only after every stage has succeeded, in order.
C8_AllOrNothing ==
  /\ StageNames(stages) = SubSeq(StageOrder, 1, Len(stages))
  /\ \A i \in 1 .. Len(stages) :
       stages[i].outcome # "ok" =>
         /\ i = Len(stages)
         /\ epc = "done"
         /\ execResult.status \in {"Err", "panic"}
  /\ execResult.status # "Ok" => execResult.transaction = NoTransaction
  /\ execResult.status = "Ok" =>
       /\ StageNames(stages) = StageOrder
       /\ \A i \in 1 .. Len(stages) : stages[i].outcome = "ok"
       /\ execResult.transaction # NoTransaction

\* the record encryption failed after two successful stages
C8_Witness ==
  /\ epc = "done" /\ execResult.status = "Err"
  /\ Len(stages) = 3 /\ stages[3] = [stage |-> "encrypt", outcome |-> "err"]

\* C9: the outer proving runs only after the self-check returned true, on
\* the proof that was verified.
C9_OuterAfterSelfCheck ==
  (\E i \in 1 .. Len(stages) : stages[i].stage = "outer_prove") =>
    /\ \E j \in 1 .. Len(stages) :
         /\ stages[j] = [stage |-> "inner_verify", outcome |-> "ok"]
         /\ \A i \in 1 .. Len(stages) : stages[i].stage = "outer_prove" => j < i
    /\ locals.self_check = "true"
    /\ locals.verified_proof.sound
    /\ locals.outer_private_variables.inner_proof = locals.verified_proof

C9_Witness ==
  /\ Len(stages) >= 8 /\ stages[8].stage = "outer_prove"
  /\ locals.self_check = "true"

\* C10: a failed self-check, false or erroring, is a fatal fault and never
\* an ordinary error result.
C10_SelfCheckFatal ==
  locals.self_check \in {"false", "err"} => execResult.status = "panic"

=============================================================================
